---- MODULE Spec2Model ----
(***************************************************************************)
(* Airline ticket sales: AirlineTicketSystem over a TextFileStorage.       *)
(*                                                                         *)
(* Python values are tagged records: [t |-> "str", v |-> <<chars>>],       *)
(* [t |-> "int", v |-> n] and [t |-> "float", v |-> tenths] (a float is    *)
(* kept as its value times ten, so 79.5 is 795).  A str is a sequence of   *)
(* one-character strings.  The JSON file is a sequence of objects, each a  *)
(* sequence of <<key, token>> members in dict order, where a token is the  *)
(* text json.dump writes for the value.                                    *)
(***************************************************************************)
EXTENDS Integers, Sequences, FiniteSets, TLC

VARIABLES tickets, file, lastOp, ret

vars == <<tickets, file, lastOp, ret>>

\* Longest ticket list the model explores.
MaxTickets == 3

----------------------------------------------------------------------------
(* Python values *)

StrV(cs) == [t |-> "str", v |-> cs]
IntV(n) == [t |-> "int", v |-> n]
FloatV(tenths) == [t |-> "float", v |-> tenths]

Abs(n) == IF n < 0 THEN -n ELSE n

Digits == <<"0", "1", "2", "3", "4", "5", "6", "7", "8", "9">>

IsDigit(c) == \E d \in 1..10 : Digits[d] = c

DigitVal(c) == (CHOOSE d \in 1..10 : Digits[d] = c) - 1

RECURSIVE NatStr(_)
NatStr(n) ==
    IF n < 10 THEN <<Digits[n + 1]>>
    ELSE Append(NatStr(n \div 10), Digits[(n % 10) + 1])

\* int.__repr__, used by json.dump for an int and by the f-string of book_ticket
IntRepr(n) == IF n < 0 THEN <<"-">> \o NatStr(-n) ELSE NatStr(n)

\* float.__repr__ for a value with one fractional digit: 800.0, 79.5, -0.5
FloatRepr(tenths) ==
    (IF tenths < 0 THEN <<"-">> ELSE <<>>)
        \o NatStr(Abs(tenths) \div 10) \o <<".">> \o <<Digits[(Abs(tenths) % 10) + 1]>>

RECURSIVE DigitsVal(_)
DigitsVal(cs) ==
    IF cs = <<>> THEN 0
    ELSE DigitsVal(SubSeq(cs, 1, Len(cs) - 1)) * 10 + DigitVal(cs[Len(cs)])

AllDigits(cs) == Len(cs) > 0 /\ \A i \in 1..Len(cs) : IsDigit(cs[i])

RECURSIVE LStrip(_)
LStrip(cs) == IF cs # <<>> /\ cs[1] = " " THEN LStrip(Tail(cs)) ELSE cs

RECURSIVE RStrip(_)
RStrip(cs) ==
    IF cs # <<>> /\ cs[Len(cs)] = " " THEN RStrip(SubSeq(cs, 1, Len(cs) - 1)) ELSE cs

Strip(cs) == RStrip(LStrip(cs))

HasSign(cs) == cs # <<>> /\ cs[1] \in {"-", "+"}

Unsigned(cs) == IF HasSign(cs) THEN Tail(cs) ELSE cs

Signed(cs, n) == IF cs # <<>> /\ cs[1] = "-" THEN -n ELSE n

IndexOf(cs, c) ==
    IF \E i \in 1..Len(cs) : cs[i] = c
    THEN CHOOSE i \in 1..Len(cs) : cs[i] = c /\ \A j \in 1..(i - 1) : cs[j] # c
    ELSE 0

Ok(val) == [ok |-> TRUE, val |-> val]
ValueError == [ok |-> FALSE, val |-> IntV(0)]

\* int(x): an int is kept, a float is truncated toward zero, a str is stripped
\* and must be an optionally signed run of digits.
PyInt(x) ==
    CASE x.t = "int" -> Ok(IntV(x.v))
      [] x.t = "float" -> Ok(IntV(IF x.v < 0 THEN -((-x.v) \div 10) ELSE x.v \div 10))
      [] x.t = "str" ->
            LET s == Strip(x.v)
                body == Unsigned(s)
            IN IF AllDigits(body) THEN Ok(IntV(Signed(s, DigitsVal(body))))
               ELSE ValueError

\* float(x), for texts with at most one fractional digit: "800", "79.5", "7."
PyFloat(x) ==
    CASE x.t = "int" -> Ok(FloatV(x.v * 10))
      [] x.t = "float" -> Ok(FloatV(x.v))
      [] x.t = "str" ->
            LET s == Strip(x.v)
                body == Unsigned(s)
                dot == IndexOf(body, ".")
                whole == IF dot = 0 THEN body ELSE SubSeq(body, 1, dot - 1)
                frac == IF dot = 0 THEN <<>> ELSE SubSeq(body, dot + 1, Len(body))
            IN IF /\ (whole # <<>> \/ frac # <<>>)
                  /\ (whole = <<>> \/ AllDigits(whole))
                  /\ (frac = <<>> \/ (AllDigits(frac) /\ Len(frac) = 1))
               THEN Ok(FloatV(Signed(s, DigitsVal(whole) * 10 + DigitsVal(frac))))
               ELSE ValueError

\* a == b on Python values: numbers compare by value, anything else by type and value
PyEq(a, b) ==
    CASE a.t = "int" /\ b.t = "float" -> a.v * 10 = b.v
      [] a.t = "float" /\ b.t = "int" -> a.v = b.v * 10
      [] OTHER -> a.t = b.t /\ a.v = b.v

UpperCase == <<"A", "B", "C", "H", "J", "M", "S", "T", "X">>
LowerCase == <<"a", "b", "c", "h", "j", "m", "s", "t", "x">>

LowerChar(c) ==
    IF \E i \in 1..Len(UpperCase) : UpperCase[i] = c
    THEN LowerCase[CHOOSE i \in 1..Len(UpperCase) : UpperCase[i] = c]
    ELSE c

\* str.lower()
lower(s) == StrV([i \in 1..Len(s.v) |-> LowerChar(s.v[i])])

----------------------------------------------------------------------------
(* json.dump / json.load *)

NeedsEscape(c) == c \in {"\"", "\\"}

RECURSIVE EscapeChars(_)
EscapeChars(cs) ==
    IF cs = <<>> THEN <<>>
    ELSE (IF NeedsEscape(cs[1]) THEN <<"\\", cs[1]>> ELSE <<cs[1]>>) \o EscapeChars(Tail(cs))

RECURSIVE UnescapeChars(_)
UnescapeChars(cs) ==
    IF cs = <<>> THEN <<>>
    ELSE IF cs[1] = "\\" /\ Len(cs) > 1
         THEN <<cs[2]>> \o UnescapeChars(SubSeq(cs, 3, Len(cs)))
         ELSE <<cs[1]>> \o UnescapeChars(Tail(cs))

\* the text json.dump writes for one value
JsonEncodeValue(x) ==
    CASE x.t = "str" -> [tok |-> "string", text |-> EscapeChars(x.v)]
      [] x.t = "int" -> [tok |-> "number", text |-> IntRepr(x.v)]
      [] x.t = "float" -> [tok |-> "number", text |-> FloatRepr(x.v)]

\* json.load with every number read as a float
JsonDecodeValue_AllFloat(tk) ==
    IF tk.tok = "string" THEN StrV(UnescapeChars(tk.text))
    ELSE PyFloat(StrV(tk.text)).val

\* the value json.load builds from one token: a number with a fraction part
\* is a float, one without is an int
JsonDecodeValue(tk) ==
    IF tk.tok = "string" THEN StrV(UnescapeChars(tk.text))
    ELSE LET dot == IndexOf(tk.text, ".")
             body == Unsigned(tk.text)
         IN IF dot = 0 THEN IntV(Signed(tk.text, DigitsVal(body)))
            ELSE LET bdot == IndexOf(body, ".")
                 IN FloatV(Signed(tk.text,
                        DigitsVal(SubSeq(body, 1, bdot - 1)) * 10
                            + DigitsVal(SubSeq(body, bdot + 1, Len(body)))))

\* the keys of a ticket dict, in the order the dict literal inserts them
FieldOrder ==
    <<"ticket_id", "flight_num", "origin", "destination", "date", "price", "seats_left">>

JsonEncodeObject(d) ==
    [i \in 1..Len(FieldOrder) |-> <<FieldOrder[i], JsonEncodeValue(d[FieldOrder[i]])>>]

\* a later member with the same key overrides an earlier one
JsonDecodeObject(members) ==
    [k \in {members[i][1] : i \in 1..Len(members)} |->
        LET last == CHOOSE i \in 1..Len(members) :
                        /\ members[i][1] = k
                        /\ \A j \in (i + 1)..Len(members) : members[j][1] # k
        IN JsonDecodeValue(members[last][2])]

json_dump(data) == [i \in 1..Len(data) |-> JsonEncodeObject(data[i])]

json_load(content) == [i \in 1..Len(content) |-> JsonDecodeObject(content[i])]

----------------------------------------------------------------------------
(* TextFileStorage *)

NoFile == [exists |-> FALSE, content |-> <<>>]

load_data(f) == IF f.exists THEN json_load(f.content) ELSE <<>>

save_data(data) == [exists |-> TRUE, content |-> json_dump(data)]

----------------------------------------------------------------------------
(* AirlineTicketSystem *)

\* the dict literal of create_ticket; float(price) is evaluated before
\* int(seats_left), and either may raise
NewTicket(ticket_id, flight_num, origin, destination, date, price, seats_left) ==
    [ticket_id |-> ticket_id,
     flight_num |-> flight_num,
     origin |-> origin,
     destination |-> destination,
     date |-> date,
     price |-> PyFloat(price).val,
     seats_left |-> PyInt(seats_left).val]

CoercionOk(price, seats_left) == PyFloat(price).ok /\ PyInt(seats_left).ok

\* search_tickets comparing without lower()
RouteMatches_NoLower(t, origin, destination) ==
    PyEq(t.origin, origin) /\ PyEq(t.destination, destination)

\* search_tickets with the query origin matched as a prefix of the ticket's
RouteMatches_Prefix(t, origin, destination) ==
    /\ Len(t.origin.v) >= Len(origin.v)
    /\ SubSeq(lower(t.origin).v, 1, Len(origin.v)) = lower(origin).v
    /\ PyEq(lower(t.destination), lower(destination))

\* t["origin"].lower() == origin.lower() and t["destination"].lower() == destination.lower()
RouteMatches(t, origin, destination) ==
    /\ PyEq(lower(t.origin), lower(origin))
    /\ PyEq(lower(t.destination), lower(destination))

\* the list comprehension of search_tickets, one ticket at a time
RECURSIVE Comprehension(_, _, _)
Comprehension(ts, origin, destination) ==
    IF ts = <<>> THEN <<>>
    ELSE (IF RouteMatches(ts[1], origin, destination) THEN <<ts[1]>> ELSE <<>>)
            \o Comprehension(Tail(ts), origin, destination)

\* book_ticket comparing ids without regard to letter case
FirstMatch_IgnoreCase(ts, ticket_id) ==
    IF \E i \in 1..Len(ts) : PyEq(lower(ts[i].ticket_id), lower(ticket_id))
    THEN CHOOSE i \in 1..Len(ts) :
            /\ PyEq(lower(ts[i].ticket_id), lower(ticket_id))
            /\ \A j \in 1..(i - 1) : ~PyEq(lower(ts[j].ticket_id), lower(ticket_id))
    ELSE 0

\* book_ticket going on to the next ticket with the id when one is sold out
FirstMatch_WithSeats(ts, ticket_id) ==
    LET hit(i) == PyEq(ts[i].ticket_id, ticket_id)
        open(i) == hit(i) /\ ts[i].seats_left.v > 0
    IN IF \E i \in 1..Len(ts) : open(i)
       THEN CHOOSE i \in 1..Len(ts) : open(i) /\ \A j \in 1..(i - 1) : ~open(j)
       ELSE IF \E i \in 1..Len(ts) : hit(i)
            THEN CHOOSE i \in 1..Len(ts) : hit(i) /\ \A j \in 1..(i - 1) : ~hit(j)
            ELSE 0

\* the index the for loop of book_ticket stops at: the first ticket whose
\* ticket_id equals the argument, 0 when the loop runs to its end
FirstMatch(ts, ticket_id) ==
    IF \E i \in 1..Len(ts) : PyEq(ts[i].ticket_id, ticket_id)
    THEN CHOOSE i \in 1..Len(ts) :
            /\ PyEq(ts[i].ticket_id, ticket_id)
            /\ \A j \in 1..(i - 1) : ~PyEq(ts[j].ticket_id, ticket_id)
    ELSE 0

\* book_ticket taking two seats
Decrement_ByTwo(x) == IF x.t = "float" THEN FloatV(x.v - 20) ELSE IntV(x.v - 2)

\* ticket["seats_left"] -= 1
Decrement(x) == IF x.t = "float" THEN FloatV(x.v - 10) ELSE IntV(x.v - 1)

\* book_ticket testing seats_left >= 0
HasSeats_OrZero(t) == t.seats_left.v >= 0

\* book_ticket testing seats_left != 0
HasSeats_NonZero(t) == t.seats_left.v # 0

HasSeats(t) == t.seats_left.v > 0

(* return values: kind is the Python type of the value (or "raise") *)
RetStr(msg) == [kind |-> "str", msg |-> msg, items |-> <<>>, id |-> <<>>, remaining |-> <<>>]
RetList(items) == [kind |-> "list", msg |-> "", items |-> items, id |-> <<>>, remaining |-> <<>>]
RetRaise(exc) == [kind |-> "raise", msg |-> exc, items |-> <<>>, id |-> <<>>, remaining |-> <<>>]
RetNone == [kind |-> "none", msg |-> "", items |-> <<>>, id |-> <<>>, remaining |-> <<>>]

Created == RetStr("Ticket created successfully")
NoRoute == RetStr("No tickets found for this route")
SoldOut == RetStr("No seats left for this ticket")
NotFound == RetStr("Ticket not found")

\* f"Ticket {ticket_id} booked successfully. Remaining seats: {ticket['seats_left']}"
Booked(ticket_id, seats_left) ==
    [kind |-> "str", msg |-> "Ticket {} booked successfully. Remaining seats: {}",
     items |-> <<>>, id |-> ticket_id.v,
     remaining |-> IF seats_left.t = "float" THEN FloatRepr(seats_left.v)
                   ELSE IntRepr(seats_left.v)]

Op(name, args) == [op |-> name, args |-> args]

----------------------------------------------------------------------------
(* the arguments the calls are drawn from *)

T1 == StrV(<<"T", "1">>)
T2 == StrV(<<"T", "2">>)
T3 == StrV(<<"T", "3">>)
t1 == StrV(<<"t", "1">>)

CA == StrV(<<"C", "A">>)
MU == StrV(<<"M", "\"", "\\">>)

Bj == StrV(<<"B", "j">>)
bJ == StrV(<<"b", "J">>)
Bjx == StrV(<<"B", "j", "x">>)
Sh == StrV(<<"S", "h">>)
sH == StrV(<<"s", "H">>)

Day == StrV(<<"1", "2", "-", "0", "1">>)

CreateArgs ==
    { <<T1, CA, Bj, Sh, Day, IntV(800), IntV(1)>>,
      <<T1, MU, bJ, sH, Day, StrV(<<"7", "9", ".", "5">>), StrV(<<" ", "2">>)>>,
      <<T2, MU, Bjx, Sh, Day, StrV(<<"3", "0">>), IntV(0)>>,
      <<T2, CA, Sh, Bj, Day, FloatV(5), FloatV(19)>>,
      <<T1, CA, Bj, Sh, Day, IntV(800), StrV(<<"-", "1">>)>>,
      <<T2, CA, Bj, Sh, Day, StrV(<<"a">>), IntV(1)>>,
      <<T2, CA, Bj, Sh, Day, IntV(800), StrV(<<"2", ".", "5">>)>> }

SearchArgs == { <<Bj, Sh>>, <<bJ, sH>>, <<Bjx, Sh>>, <<Sh, Bj>>, <<Bj, Bj>> }

BookArgs == { T1, T2, T3, t1 }

\* a file an earlier run of the program left behind
EarlierRun ==
    save_data(<<NewTicket(T2, CA, Sh, Bj, Day, IntV(300), IntV(0)),
                NewTicket(T2, MU, Sh, Bj, Day, IntV(300), IntV(2))>>)

\* a file written by hand: another member order, an int price, a repeated key
HandWritten ==
    [exists |-> TRUE,
     content |-> << << <<"seats_left", [tok |-> "number", text |-> <<"5">>]>>,
                       <<"price", [tok |-> "number", text |-> <<"3", "0", "0">>]>>,
                       <<"ticket_id", [tok |-> "string", text |-> <<"T", "3">>]>>,
                       <<"flight_num", [tok |-> "string", text |-> <<"\\", "\"", "A">>]>>,
                       <<"origin", [tok |-> "string", text |-> <<"S", "h">>]>>,
                       <<"destination", [tok |-> "string", text |-> <<"B", "j">>]>>,
                       <<"date", [tok |-> "string", text |-> <<"1", "2", "-", "0", "1">>]>>,
                       <<"seats_left", [tok |-> "number", text |-> <<"1">>]>> >> >>]

InitialFiles == { NoFile, EarlierRun, HandWritten }

----------------------------------------------------------------------------
(* the operations *)

\* AirlineTicketSystem.__init__
Init ==
    \E f \in InitialFiles :
        /\ file = f
        /\ tickets = load_data(f)
        /\ lastOp = Op("init", <<>>)
        /\ ret = RetNone

\* create_ticket inserting the new ticket at the front of the list
create_ticket_Prepend(a) ==
    /\ Len(tickets) < MaxTickets
    /\ lastOp' = Op("create", a)
    /\ IF CoercionOk(a[6], a[7])
       THEN /\ tickets' = <<NewTicket(a[1], a[2], a[3], a[4], a[5], a[6], a[7])>> \o tickets
            /\ file' = save_data(tickets')
            /\ ret' = Created
       ELSE /\ ret' = RetRaise("ValueError")
            /\ UNCHANGED <<tickets, file>>

create_ticket(a) ==
    /\ Len(tickets) < MaxTickets
    /\ lastOp' = Op("create", a)
    /\ IF CoercionOk(a[6], a[7])
       THEN /\ tickets' = Append(tickets, NewTicket(a[1], a[2], a[3], a[4], a[5], a[6], a[7]))
            /\ file' = save_data(tickets')
            /\ ret' = Created
       ELSE /\ ret' = RetRaise("ValueError")
            /\ UNCHANGED <<tickets, file>>

search_tickets(origin, destination) ==
    LET results == Comprehension(tickets, origin, destination)
    IN /\ lastOp' = Op("search", <<origin, destination>>)
       /\ ret' = IF results # <<>> THEN RetList(results) ELSE NoRoute
       /\ UNCHANGED <<tickets, file>>

\* book_ticket without the save_data call
book_ticket_NoSave(ticket_id) ==
    LET i == FirstMatch(tickets, ticket_id)
    IN /\ lastOp' = Op("book", <<ticket_id>>)
       /\ IF i = 0
          THEN /\ ret' = NotFound
               /\ UNCHANGED <<tickets, file>>
          ELSE IF HasSeats(tickets[i])
               THEN /\ tickets' = [tickets EXCEPT ![i].seats_left = Decrement(@)]
                    /\ ret' = Booked(ticket_id, tickets'[i].seats_left)
                    /\ UNCHANGED file
               ELSE /\ ret' = SoldOut
                    /\ UNCHANGED <<tickets, file>>

book_ticket(ticket_id) ==
    LET i == FirstMatch(tickets, ticket_id)
    IN /\ lastOp' = Op("book", <<ticket_id>>)
       /\ IF i = 0
          THEN /\ ret' = NotFound
               /\ UNCHANGED <<tickets, file>>
          ELSE IF HasSeats(tickets[i])
               THEN /\ tickets' = [tickets EXCEPT ![i].seats_left = Decrement(@)]
                    /\ file' = save_data(tickets')
                    /\ ret' = Booked(ticket_id, tickets'[i].seats_left)
               ELSE /\ ret' = SoldOut
                    /\ UNCHANGED <<tickets, file>>

\* the process exits and a later run constructs the service again from the file
Restart ==
    /\ tickets' = load_data(file)
    /\ lastOp' = Op("init", <<>>)
    /\ ret' = RetNone
    /\ UNCHANGED file

Next ==
    \/ \E a \in CreateArgs : create_ticket(a)
    \/ \E a \in SearchArgs : search_tickets(a[1], a[2])
    \/ \E id \in BookArgs : book_ticket(id)
    \/ Restart

Spec == Init /\ [][Next]_vars

----------------------------------------------------------------------------
(* TextFileStorage used on its own: any caller, any sequence of records *)

Records ==
    { NewTicket(T1, CA, Bj, Sh, Day, IntV(800), IntV(10)),
      NewTicket(T1, MU, bJ, sH, Day, StrV(<<"-", "7", ".", "5">>), StrV(<<"-", "1">>)),
      [ticket_id |-> StrV(<<"1", "2">>), flight_num |-> StrV(<<"\\", "\\", "\"">>),
       origin |-> StrV(<<>>), destination |-> StrV(<<"1", ".", "5">>), date |-> Day,
       price |-> IntV(300), seats_left |-> IntV(0)],
      NewTicket(T2, CA, Sh, Bj, Day, FloatV(5), IntV(2)) }

SeqsUpTo(S, n) == UNION { [1..k -> S] : k \in 0..n }

StorageInit ==
    /\ file \in InitialFiles
    /\ tickets = <<>>
    /\ lastOp = Op("init", <<>>)
    /\ ret = RetNone

StorageSave(data) ==
    /\ file' = save_data(data)
    /\ lastOp' = Op("save", data)
    /\ ret' = RetNone
    /\ UNCHANGED tickets

StorageLoad ==
    /\ ret' = RetList(load_data(file))
    /\ lastOp' = Op("load", <<>>)
    /\ UNCHANGED <<file, tickets>>

StorageNext ==
    \/ \E data \in SeqsUpTo(Records, MaxTickets) : StorageSave(data)
    \/ StorageLoad

StorageSpec == StorageInit /\ [][StorageNext]_vars

----------------------------------------------------------------------------
(* the properties *)

\* ticket i is the first of ts whose ticket_id is id
IsFirstWithId(ts, i, id) ==
    /\ i \in 1..Len(ts)
    /\ ts[i].ticket_id = id
    /\ \A j \in 1..(i - 1) : ts[j].ticket_id # id

\* ticket t is on the route (origin, destination), letter case aside
OnRoute(t, origin, destination) ==
    /\ lower(t.origin).v = lower(origin).v
    /\ lower(t.destination).v = lower(destination).v

\* a and b differ at most in seats_left
SameButSeats(a, b) == [a EXCEPT !.seats_left = b.seats_left] = b

\* C1: what load_data would return from the file is the in-memory ticket
\* list, record for record and in order; a missing file counts as empty.
C1_WriteThrough == load_data(file) = tickets

C1_Witness ==
    /\ lastOp.op = "book"
    /\ ret.remaining # <<>>
    /\ Len(tickets) >= 2
    /\ file.exists
    /\ \E i \in 1..Len(tickets) : tickets[i].flight_num = MU

\* C2: booking an id whose first ticket has N > 0 seats sets that ticket's
\* seats_left to N-1, persists the whole list, returns the success message
\* carrying N-1, and changes nothing else.
C2_BookDecrements ==
    [][\A id \in BookArgs : \A i \in 1..Len(tickets) :
          (/\ lastOp' = Op("book", <<id>>)
           /\ IsFirstWithId(tickets, i, id)
           /\ tickets[i].seats_left.v > 0)
          => /\ Len(tickets') = Len(tickets)
             /\ tickets'[i].seats_left = IntV(tickets[i].seats_left.v - 1)
             /\ SameButSeats(tickets[i], tickets'[i])
             /\ \A j \in 1..Len(tickets) : j # i => tickets'[j] = tickets[j]
             /\ file'.exists /\ load_data(file') = tickets'
             /\ ret'.kind = "str"
             /\ ret'.msg = "Ticket {} booked successfully. Remaining seats: {}"
             /\ ret'.id = id.v
             /\ AllDigits(ret'.remaining)
             /\ DigitsVal(ret'.remaining) = tickets[i].seats_left.v - 1]_vars

C2_Witness ==
    /\ lastOp.op = "book"
    /\ ret.remaining = <<"0">>
    /\ \E i \in 2..Len(tickets) :
          /\ IsFirstWithId(tickets, i, lastOp.args[1])
          /\ tickets[i].seats_left = IntV(0)

\* C3: booking an id whose first ticket has no seats left returns the sold-out
\* message, not an error, and changes neither the list nor the file.
C3_SoldOut ==
    [][\A id \in BookArgs : \A i \in 1..Len(tickets) :
          (/\ lastOp' = Op("book", <<id>>)
           /\ IsFirstWithId(tickets, i, id)
           /\ tickets[i].seats_left.v = 0)
          => /\ ret' = SoldOut
             /\ ret'.kind # "raise"
             /\ tickets'[i].seats_left.v = 0
             /\ tickets' = tickets
             /\ file' = file]_vars

C3_Witness ==
    /\ lastOp.op = "book"
    /\ ret = SoldOut
    /\ \E i \in 1..Len(tickets) :
          /\ IsFirstWithId(tickets, i, lastOp.args[1])
          /\ tickets[i].seats_left.v = 0

\* C4: booking an id no ticket carries returns the not-found message and
\* leaves the list and the file as they were.
C4_NotFound ==
    [][\A id \in BookArgs :
          (/\ lastOp' = Op("book", <<id>>)
           /\ \A i \in 1..Len(tickets) : tickets[i].ticket_id # id)
          => /\ ret' = NotFound
             /\ tickets' = tickets
             /\ file' = file]_vars

C4_Witness ==
    /\ lastOp = Op("book", <<t1>>)
    /\ ret = NotFound
    /\ \E i \in 1..Len(tickets) : tickets[i].ticket_id = T1 /\ tickets[i].seats_left.v > 0

\* C5: no step takes a ticket's seats_left from >= 0 to below 0, no step
\* lowers a seats_left that is <= 0, and a ticket with seats_left < 0 was
\* created with a negative seats_left.
C5_NeverNegative ==
    [][/\ \A i \in 1..Len(tickets) :
            /\ i \in 1..Len(tickets')
            /\ tickets[i].seats_left.v >= 0 => tickets'[i].seats_left.v >= 0
            /\ tickets[i].seats_left.v <= 0 => tickets'[i].seats_left.v >= tickets[i].seats_left.v
       /\ \A i \in 1..Len(tickets') :
            tickets'[i].seats_left.v < 0
            => \/ i \in 1..Len(tickets) /\ tickets[i].seats_left.v < 0
               \/ /\ i = Len(tickets') /\ i = Len(tickets) + 1
                  /\ lastOp'.op = "create"
                  /\ PyInt(lastOp'.args[7]).val.v < 0]_vars

C5_Witness ==
    /\ lastOp.op = "book"
    /\ ret = SoldOut
    /\ \E i \in 1..Len(tickets) :
          /\ IsFirstWithId(tickets, i, lastOp.args[1])
          /\ tickets[i].seats_left.v < 0

\* the indices of the tickets on the route, and how many of them are <= i
RouteIndices(ts, origin, destination) ==
    { i \in 1..Len(ts) : OnRoute(ts[i], origin, destination) }

Rank(S, i) == Cardinality({ j \in S : j <= i })

\* C6: search returns exactly the tickets on the route (whole-string equality
\* after lowercasing), in list order; the not-found sentinel, a str and not a
\* list, exactly when there is none; and changes neither list nor file.
C6_SearchExact ==
    [][\A a \in SearchArgs :
          lastOp' = Op("search", a)
          => LET M == RouteIndices(tickets, a[1], a[2])
             IN /\ tickets' = tickets
                /\ file' = file
                /\ (M = {}) <=> (ret' = NoRoute)
                /\ (M = {}) <=> (ret'.kind # "list")
                /\ M # {} => /\ Len(ret'.items) = Cardinality(M)
                             /\ \A i \in M : ret'.items[Rank(M, i)] = tickets[i]]_vars

C6_Witness ==
    /\ lastOp = Op("search", <<Bj, Sh>>)
    /\ ret.kind = "list"
    /\ Len(ret.items) = 2
    /\ Len(tickets) = 3
    /\ tickets[2].origin = Bjx
    /\ ret.items = <<tickets[1], tickets[3]>>
    /\ tickets[1] # tickets[3]

C6_WitnessNone ==
    /\ lastOp = Op("search", <<Bj, Sh>>)
    /\ ret = NoRoute
    /\ \E i \in 1..Len(tickets) : tickets[i].origin = Bjx

\* C7 as stated: a search by the route of the ticket just created returns
\* exactly one match, with the created flight_num.
C7_Original ==
    [][(/\ lastOp.op = "create" /\ ret = Created
        /\ lastOp'.op = "search"
        /\ OnRoute(tickets[Len(tickets)], lastOp'.args[1], lastOp'.args[2]))
       => /\ ret'.kind = "list"
          /\ Len(ret'.items) = 1
          /\ ret'.items[1].flight_num = lastOp.args[2]]_vars

\* C7 amended: a search by the route of the ticket just created returns a list
\* whose last match is the created ticket; it is the only match when no
\* earlier ticket is on that route.
C7_CreateThenSearch ==
    [][(/\ lastOp.op = "create" /\ ret = Created
        /\ lastOp'.op = "search"
        /\ OnRoute(tickets[Len(tickets)], lastOp'.args[1], lastOp'.args[2]))
       => /\ ret'.kind = "list"
          /\ Len(ret'.items) >= 1
          /\ ret'.items[Len(ret'.items)] = tickets[Len(tickets)]
          /\ ret'.items[Len(ret'.items)].flight_num = lastOp.args[2]
          /\ (\A i \in 1..(Len(tickets) - 1) :
                 ~OnRoute(tickets[i], lastOp'.args[1], lastOp'.args[2]))
             => Len(ret'.items) = 1]_vars

C7_Witness ==
    /\ lastOp = Op("search", <<Bj, Sh>>)
    /\ ret.kind = "list"
    /\ Len(ret.items) = 1
    /\ Len(tickets) = 2
    /\ ret.items[1] = tickets[2]
    /\ tickets[2].origin = bJ

\* C8: a load after a save returns the saved records, field for field and in
\* order, whatever the file held before; a load with no file returns the
\* empty list, not an error.
C8_RoundTrip ==
    [][/\ (lastOp.op = "save" /\ lastOp'.op = "load")
          => /\ ret' = RetList(lastOp.args)
             /\ Len(ret'.items) = Len(lastOp.args)
       /\ (~file.exists /\ lastOp'.op = "load") => ret' = RetList(<<>>)
       /\ lastOp'.op = "save" => load_data(file') = lastOp'.args]_vars

C8_Witness ==
    /\ lastOp.op = "load"
    /\ file.exists
    /\ Len(ret.items) = MaxTickets
    /\ \E i, j \in 1..Len(ret.items) :
          /\ ret.items[i].price.t = "int"
          /\ ret.items[j].price.t = "float"
          /\ ret.items[i].flight_num.v = <<"\\", "\\", "\"">>

C8_WitnessFresh ==
    /\ lastOp.op = "load"
    /\ ~file.exists
    /\ ret = RetList(<<>>)

\* C9: a ticket that follows another ticket with the same ticket_id never has
\* its seats_left changed, and booking an id whose first ticket is sold out
\* returns the sold-out message even when a later ticket with that id has seats.
C9_FirstOccurrenceOnly ==
    [][/\ \A i \in 1..Len(tickets) :
            (\E j \in 1..(i - 1) : tickets[j].ticket_id = tickets[i].ticket_id)
            => /\ i \in 1..Len(tickets')
               /\ tickets'[i].seats_left = tickets[i].seats_left
       /\ \A id \in BookArgs : \A i \in 1..Len(tickets) :
            (/\ lastOp' = Op("book", <<id>>)
             /\ IsFirstWithId(tickets, i, id)
             /\ tickets[i].seats_left.v = 0
             /\ \E j \in (i + 1)..Len(tickets) :
                    tickets[j].ticket_id = id /\ tickets[j].seats_left.v > 0)
            => ret' = SoldOut /\ tickets' = tickets]_vars

C9_Witness ==
    /\ lastOp.op = "book"
    /\ ret = SoldOut
    /\ \E i \in 1..Len(tickets) : \E j \in (i + 1)..Len(tickets) :
          /\ IsFirstWithId(tickets, i, lastOp.args[1])
          /\ tickets[i].seats_left.v = 0
          /\ tickets[j].ticket_id = lastOp.args[1]
          /\ tickets[j].seats_left.v > 0

\* C10: the list only grows, at its end and by one ticket per create, with no
\* check of the new ticket_id; an existing ticket keeps its place and every
\* field but seats_left, which never goes up.
C10_AppendOnly ==
    [][/\ Len(tickets') >= Len(tickets)
       /\ Len(tickets') <= Len(tickets) + 1
       /\ \A i \in 1..Len(tickets) :
            /\ SameButSeats(tickets[i], tickets'[i])
            /\ tickets'[i].seats_left.v <= tickets[i].seats_left.v
       /\ (lastOp'.op = "create" /\ ret' = Created)
            => /\ Len(tickets') = Len(tickets) + 1
               /\ SubSeq(tickets', 1, Len(tickets)) = tickets
               /\ tickets'[Len(tickets')].ticket_id = lastOp'.args[1]
       /\ lastOp'.op # "create" => Len(tickets') = Len(tickets)]_vars

C10_Witness ==
    /\ lastOp.op = "create"
    /\ ret = Created
    /\ Len(tickets) >= 2
    /\ \E i \in 1..(Len(tickets) - 1) :
          /\ tickets[i].ticket_id = tickets[Len(tickets)].ticket_id
          /\ tickets[i].seats_left.v = 0

====
